---- MODULE Spec2Model ----
(***************************************************************************)
(* Multi-assistant workflow engine (src/main.py): ChatManager running a    *)
(* workflow of sequential / parallel steps against a completion backend.   *)
(*                                                                         *)
(* Python strings are sequences of atoms.  A message text is the sequence  *)
(* of its lines (text.split("\n")), so "" is <<"">> and "\n".join is       *)
(* concatenation of line sequences.  Python's None is <<>>, which is no    *)
(* string.  An identifier is a sequence of tokens.                         *)
(***************************************************************************)
EXTENDS Integers, Sequences, FiniteSets, TLC

VARIABLES
  system_state, client, conversation_history,  \* ChatManager
  runs,                 \* the calls of process_message, by slot
  calls,                \* the requests the completion client has received
  assistants,           \* AssistantManager.assistants, in insertion order
  config_file,          \* the 'assistants' entry of config.yaml
  workflows,            \* WorkflowManager.workflows, in insertion order
  current_workflow,     \* WorkflowManager.current_workflow (the draft)
  workflow_file,        \* workflows.json
  now,                  \* the clock read by datetime.now()
  returned,             \* what the last store operation returned
  active_workflow,      \* the value of the workflow Dropdown of the chat tab
  active_choices        \* the choices of that Dropdown

engineVars == <<system_state, client, conversation_history, runs, calls>>
assistantVars == <<assistants, config_file>>
workflowVars == <<workflows, current_workflow, workflow_file>>
uiVars == <<active_workflow, active_choices>>
storeVars == <<assistantVars, workflowVars, now, returned, uiVars>>
vars == <<engineVars, storeVars>>

----------------------------------------------------------------------------
(* Bounds of the model *)

MaxSteps == 2
MaxStepLen == 2
MaxCalls == 3

None == <<>>
EmptyStr == <<"">>

AssistantIds == {<<"code", "_", "expert">>, <<"reviewer">>}
Messages == {<<"x">>}
Replies == {<<"p">>, <<"q">>}
Causes == {"timeout"}
Models == {<<"gpt-4">>}
RunIds == {1}

SeqsUpTo(S, n) == UNION {[1..k -> S] : k \in 0..n}

RECURSIVE SumLens(_)
SumLens(w) ==
  IF w = <<>> THEN 0 ELSE Len(Head(w).assistants) + SumLens(Tail(w))

(* WorkflowStep: assistants (non-empty, as add_step builds them), is_parallel *)
StepShapes ==
  [assistants : SeqsUpTo(AssistantIds, MaxStepLen) \ {<<>>}, is_parallel : BOOLEAN]

WorkflowStep(ids, is_parallel, step_id) ==
  [assistants |-> ids, is_parallel |-> is_parallel, step_id |-> step_id]

(* The step lists a caller may hand to process_message *)
WorkflowArgs ==
  { [i \in 1..Len(s) |-> WorkflowStep(s[i].assistants, s[i].is_parallel, i)] :
      s \in {t \in SeqsUpTo(StepShapes, MaxSteps) : SumLens(t) <= MaxCalls} }

----------------------------------------------------------------------------
(* Pure helpers *)

(* "\n".join(list) for a list of strings *)
RECURSIVE Join(_)
Join(list) ==
  IF list = <<>> THEN EmptyStr
  ELSE IF Len(list) = 1 THEN list[1]
  ELSE list[1] \o Join(Tail(list))

(* "\n".join raises TypeError when an item is None *)
HasNone(list) == \E i \in 1..Len(list) : list[i] = None

Message(role, content) == [role |-> role, content |-> content]

(* APIError("系统未初始化") *)
NotInitializedError == <<"not initialized">>
(* str(TypeError) of a join over a None item *)
JoinTypeError == <<"expected str instance, NoneType found">>
(* APIError(f"处理消息失败: {str(e)}") *)
ProcessError(e) == <<"process_message failed: ">> \o e
(* APIError(f"获取助手响应失败: {str(e)}") *)
ResponseError(e) == <<"get_assistant_response failed: ">> \o e

(* The system message of a completion request *)
SystemContent(assistant_id) == <<"You are ">> \o assistant_id

(* What the completion backend may answer to one request: a text, or a    *)
(* failure with its cause                                                  *)
Outcomes ==
  [ok : {TRUE}, text : Replies, cause : {"none"}]
    \cup [ok : {FALSE}, text : {None}, cause : Causes]

IdleRun ==
  [pc |-> "idle", message |-> None, workflow |-> <<>>, alias |-> FALSE,
   model |-> None, step |-> 0, pos |-> 0, current_message |-> None,
   results |-> <<>>, tasks |-> <<>>, cid |-> 0,
   final_response |-> None, error |-> None,
   hist0 |-> <<>>, state0 |-> "none", overtaken |-> FALSE]

CallRecord(r, rec, assistant_id, pos, message) ==
  [run |-> r, step |-> rec.step, pos |-> pos, assistant |-> assistant_id,
   system |-> SystemContent(assistant_id), user |-> message,
   model |-> rec.model, status |-> "inflight", result |-> None]

(* The completed run's history: one assistant Message holding final_response *)
FinalHistory_PerResult(hist, results) ==
  hist \o [i \in 1..Len(results) |-> Message("assistant", results[i])]

FinalHistory(hist, results) == Append(hist, Message("assistant", Join(results)))

(* The except clause re-raises and leaves the history as it stands *)
HistoryOnFailure_Rollback(hist) == SubSeq(hist, 1, Len(hist) - 1)

HistoryOnFailure(hist) == hist

(* The guard on entry to process_message *)
Ready_NotUninitialized(state) == state # "UNINITIALIZED"

Ready(state) == state = "INITIALIZED"

(* asyncio.gather: the results in the order of the awaitables passed *)
Gathered_Reversed(tasks) == [i \in 1..Len(tasks) |-> tasks[Len(tasks) + 1 - i].result]

Gathered(tasks) == [i \in 1..Len(tasks) |-> tasks[i].result]

(* asyncio.gather resolves when every awaitable has returned *)
GatherDone(tasks) == \A i \in 1..Len(tasks) : tasks[i].status = "ok"

(* current_message after a parallel step *)
StepMessage_Last(step_results) == step_results[Len(step_results)]

StepMessage(step_results) == Join(step_results)

(* A task of the gather starts as soon as the loop runs it *)
CanDispatch_Serial(tasks, k) ==
  /\ tasks[k].status = "created"
  /\ \A i \in 1..Len(tasks) : tasks[i].status # "inflight"

CanDispatch(tasks, k) == tasks[k].status = "created"

Raise(rec, e) == [rec EXCEPT !.pc = "failed", !.error = ProcessError(e)]

(* The for-loop of process_message from its head up to the next suspension: *)
(* rec.step is the step to run, rec.pos the next assistant of a sequential   *)
(* step.  Yields the run, the request log and the history.                   *)
RECURSIVE RunLoop(_, _, _, _)
RunLoop(r, rec, log, hist) ==
  IF rec.step > Len(rec.workflow)
  THEN IF HasNone(rec.results)
       THEN [run |-> Raise(rec, JoinTypeError), calls |-> log,
             history |-> HistoryOnFailure(hist)]
       ELSE LET final_response == Join(rec.results) IN
            [run |-> [rec EXCEPT !.pc = "done", !.final_response = final_response],
             calls |-> log,
             history |-> FinalHistory(hist, rec.results)]
  ELSE LET step == rec.workflow[rec.step] IN
       IF step.is_parallel
       THEN IF step.assistants = <<>>
            THEN RunLoop(r, [rec EXCEPT !.step = @ + 1, !.pos = 1,
                                        !.current_message = Join(<<>>)], log, hist)
            ELSE [run |-> [rec EXCEPT !.pc = "gather",
                             !.tasks = [k \in 1..Len(step.assistants) |->
                                          [status |-> "created", result |-> None, cid |-> 0]]],
                  calls |-> log, history |-> hist]
       ELSE IF rec.pos > Len(step.assistants)
            THEN RunLoop(r, [rec EXCEPT !.step = @ + 1, !.pos = 1], log, hist)
            ELSE [run |-> [rec EXCEPT !.pc = "await", !.cid = Len(log) + 1],
                  calls |-> Append(log, CallRecord(r, rec, step.assistants[rec.pos],
                                                   rec.pos, rec.current_message)),
                  history |-> hist]

----------------------------------------------------------------------------
(* ChatManager *)

(* Histories left by earlier runs: none, or a failed run and a completed one *)
PriorHistories ==
  { <<>>,
    <<Message("user", <<"x">>), Message("user", <<"x">>),
      Message("assistant", <<"p">>)>> }

InitEngine ==
  /\ system_state = "UNINITIALIZED"
  /\ client = "None"
  /\ conversation_history \in PriorHistories
  /\ runs = [r \in RunIds |-> IdleRun]
  /\ calls = <<>>

(* ChatManager.initialize: the OpenAI constructor returns or raises.  It is *)
(* read only on entry to process_message, so it is taken while a call can  *)
(* still be made.                                                           *)
initialize(ok) ==
  /\ \E r \in DOMAIN runs : runs[r].pc = "idle"
  /\ IF ok
     THEN /\ client' = "OpenAI"
          /\ system_state' = "INITIALIZED"
     ELSE /\ system_state' = "ERROR"
          /\ UNCHANGED client
  /\ UNCHANGED <<conversation_history, runs, calls>>
  /\ UNCHANGED storeVars

(* ChatManager.process_message up to its first suspension *)
process_message(r, message, workflow, alias, model) ==
  /\ runs[r].pc = "idle"
  /\ IF ~Ready(system_state)
     THEN /\ runs' = [runs EXCEPT ![r].error = NotInitializedError,
                                   ![r].state0 = system_state]
          /\ UNCHANGED <<conversation_history, calls>>
     ELSE LET hist == Append(conversation_history, Message("user", message))
              rec == [IdleRun EXCEPT !.message = message, !.workflow = workflow,
                                     !.alias = alias, !.model = model,
                                     !.step = 1, !.pos = 1,
                                     !.current_message = message,
                                     !.hist0 = conversation_history,
                                     !.state0 = system_state]
              out == RunLoop(r, rec, calls, hist)
          IN /\ runs' = [runs EXCEPT ![r] = out.run]
             /\ calls' = out.calls
             /\ conversation_history' = out.history
  /\ UNCHANGED <<system_state, client>>
  /\ UNCHANGED storeVars

(* One task of asyncio.gather starts: get_assistant_response up to to_thread *)
Dispatch(r, k) ==
  /\ runs[r].pc = "gather"
  /\ k \in 1..Len(runs[r].tasks)
  /\ CanDispatch(runs[r].tasks, k)
  /\ LET rec == runs[r]
         step == rec.workflow[rec.step]
     IN /\ calls' = Append(calls, CallRecord(r, rec, step.assistants[k], k,
                                             rec.current_message))
        /\ runs' = [runs EXCEPT ![r].tasks[k].status = "inflight",
                                ![r].tasks[k].cid = Len(calls) + 1]
  /\ UNCHANGED <<system_state, client, conversation_history>>
  /\ UNCHANGED storeVars

(* The request log entry of a resolved call *)
Settle(log, c, out) ==
  [log EXCEPT ![c].status = IF out.ok THEN "ok" ELSE "failed",
              ![c].result = out.text]

(* As SequentialReturn, but going on to the next call when the call raises *)
SequentialReturn_Swallow(r, out) ==
  /\ runs[r].pc = "await"
  /\ LET rec == runs[r]
         log == Settle(calls, rec.cid, out)
         text == IF out.ok THEN out.text ELSE <<out.cause>>
         next == RunLoop(r, [rec EXCEPT !.results = Append(@, text),
                                        !.current_message = text,
                                        !.pos = @ + 1, !.cid = 0],
                         log, conversation_history)
     IN /\ runs' = [runs EXCEPT ![r] = next.run]
        /\ calls' = next.calls
        /\ conversation_history' = next.history
  /\ UNCHANGED <<system_state, client>>
  /\ UNCHANGED storeVars

(* The awaited call of a sequential step returns or raises *)
SequentialReturn(r, out) ==
  /\ runs[r].pc = "await"
  /\ LET rec == runs[r]
         log == Settle(calls, rec.cid, out)
     IN IF out.ok
        THEN LET next == RunLoop(r, [rec EXCEPT !.results = Append(@, out.text),
                                                !.current_message = out.text,
                                                !.pos = @ + 1, !.cid = 0],
                                 log, conversation_history)
             IN /\ runs' = [runs EXCEPT ![r] = next.run]
                /\ calls' = next.calls
                /\ conversation_history' = next.history
        ELSE /\ runs' = [runs EXCEPT ![r] = Raise(rec, ResponseError(<<out.cause>>))]
             /\ calls' = log
             /\ conversation_history' = HistoryOnFailure(conversation_history)
  /\ UNCHANGED <<system_state, client>>
  /\ UNCHANGED storeVars

AllDispatched(rec) == \A k \in 1..Len(rec.tasks) : rec.tasks[k].status # "created"

(* As GatherReturn, but going on with the first result that comes back *)
GatherReturn_FirstCompleted(r, k, out) ==
  /\ runs[r].pc = "gather"
  /\ AllDispatched(runs[r])
  /\ k \in 1..Len(runs[r].tasks)
  /\ runs[r].tasks[k].status = "inflight"
  /\ LET rec == runs[r]
         log == Settle(calls, rec.tasks[k].cid, out)
         next == RunLoop(r, [rec EXCEPT !.tasks = <<>>,
                                        !.results = Append(@, out.text),
                                        !.current_message = out.text,
                                        !.step = @ + 1, !.pos = 1],
                         log, conversation_history)
     IN IF ~out.ok
        THEN /\ runs' = [runs EXCEPT ![r] = Raise(rec, ResponseError(<<out.cause>>))]
             /\ calls' = log
             /\ conversation_history' = HistoryOnFailure(conversation_history)
        ELSE /\ runs' = [runs EXCEPT ![r] = next.run]
             /\ calls' = next.calls
             /\ conversation_history' = next.history
  /\ UNCHANGED <<system_state, client>>
  /\ UNCHANGED storeVars

(* One task of asyncio.gather returns or raises; the gather resolves when  *)
(* the last one returns and raises on the first one that raises.            *)
GatherReturn(r, k, out) ==
  /\ runs[r].pc = "gather"
  /\ AllDispatched(runs[r])
  /\ k \in 1..Len(runs[r].tasks)
  /\ runs[r].tasks[k].status = "inflight"
  /\ LET rec == runs[r]
         log == Settle(calls, rec.tasks[k].cid, out)
         tasks == [rec.tasks EXCEPT ![k].status = "ok", ![k].result = out.text]
         \* observation only: a task returned before one declared ahead of it
         seen == rec.overtaken \/ \E i \in 1..(k - 1) : rec.tasks[i].status = "inflight"
         step_results == Gathered(tasks)
     IN IF ~out.ok
        THEN /\ runs' = [runs EXCEPT ![r] = Raise(rec, ResponseError(<<out.cause>>))]
             /\ calls' = log
             /\ conversation_history' = HistoryOnFailure(conversation_history)
        ELSE IF ~GatherDone(tasks)
        THEN /\ runs' = [runs EXCEPT ![r].tasks = tasks, ![r].overtaken = seen]
             /\ calls' = log
             /\ UNCHANGED conversation_history
        ELSE IF HasNone(step_results)
        THEN /\ runs' = [runs EXCEPT ![r] =
                           Raise([rec EXCEPT !.tasks = tasks,
                                             !.results = @ \o step_results],
                                 JoinTypeError)]
             /\ calls' = log
             /\ conversation_history' = HistoryOnFailure(conversation_history)
        ELSE LET next == RunLoop(r, [rec EXCEPT !.tasks = <<>>,
                                                !.results = @ \o step_results,
                                                !.current_message = StepMessage(step_results),
                                                !.step = @ + 1, !.pos = 1],
                                 log, conversation_history)
             IN /\ runs' = [runs EXCEPT ![r] = next.run]
                /\ calls' = next.calls
                /\ conversation_history' = next.history
  /\ UNCHANGED <<system_state, client>>
  /\ UNCHANGED storeVars

(* A call whose gather has already raised still finishes in its thread *)
OrphanReturn(c) ==
  /\ c \in 1..Len(calls)
  /\ calls[c].status = "inflight"
  /\ runs[calls[c].run].pc = "failed"
  /\ calls' = [calls EXCEPT ![c].status = "abandoned"]
  /\ UNCHANGED <<system_state, client, conversation_history, runs>>
  /\ UNCHANGED storeVars

----------------------------------------------------------------------------
(* Assistant: id, name, role, prompt, created_at, modified_at.  The         *)
(* timestamps default to the time the module was imported.                  *)

ImportTime == 0
MaxClock == 2

ClockRuns == now < MaxClock

Assistant(id, name, role, prompt) ==
  [id |-> id, name |-> name, role |-> role, prompt |-> prompt,
   created_at |-> ImportTime, modified_at |-> ImportTime]

(* An entry of the assistants dict: the key and the object stored under it *)
Entry(key, a) ==
  [key |-> key, id |-> a.id, name |-> a.name, role |-> a.role,
   prompt |-> a.prompt, created_at |-> a.created_at, modified_at |-> a.modified_at]

(* asdict(assistant) *)
AsDict(e) ==
  [id |-> e.id, name |-> e.name, role |-> e.role, prompt |-> e.prompt,
   created_at |-> e.created_at, modified_at |-> e.modified_at]

DEFAULT_ASSISTANTS ==
  << Assistant(<<"code", "_", "expert">>, <<"CodeExpert">>, <<"PythonDev">>,
               <<"prompt_code_expert">>),
     Assistant(<<"reviewer">>, <<"CodeReview">>, <<"ReviewExpert">>,
               <<"prompt_reviewer">>),
     Assistant(<<"architect">>, <<"Architect">>, <<"ArchExpert">>,
               <<"prompt_architect">>) >>

Keys(dict) == {dict[i].key : i \in 1..Len(dict)}

IndexOf(dict, key) == CHOOSE i \in 1..Len(dict) : dict[i].key = key

(* dict[key] = value: in place for a key already there, else at the end *)
Put(dict, key, entry) ==
  IF key \in Keys(dict) THEN [dict EXCEPT ![IndexOf(dict, key)] = entry]
  ELSE Append(dict, entry)

(* del dict[key] *)
Remove(dict, key) == SelectSeq(dict, LAMBDA e : e.key # key)

RECURSIVE PutAll(_, _)
PutAll(dict, list) ==
  IF list = <<>> THEN dict
  ELSE PutAll(Put(dict, Head(list).id, Entry(Head(list).id, Head(list))), Tail(list))

(* str.lower() of one token *)
LowerToken(t) ==
  CASE t = "Doc" -> "doc"
    [] t = "Bot" -> "bot"
    [] t = "Reviewer" -> "reviewer"
    [] OTHER -> t

(* name.lower().replace(" ", "_") *)
DeriveId(name) ==
  [i \in 1..Len(name) |-> IF name[i] = " " THEN "_" ELSE LowerToken(name[i])]

(* config.yaml as far as the store reads it: absent, holding a mapping     *)
(* (with its 'assistants' list when has_key), or empty after a cut write    *)
AbsentConfig == [state |-> "absent", has_key |-> FALSE, assistants |-> <<>>]

WriteOutcomes == {"ok", "denied", "truncated"}

(* Config.save_config: open(..., 'w') and yaml.dump *)
save_config(file, list, w) ==
  CASE w = "ok" -> [state |-> "mapping", has_key |-> TRUE, assistants |-> list]
    [] w = "denied" -> file
    [] OTHER -> [state |-> "empty", has_key |-> FALSE, assistants |-> <<>>]

(* AssistantManager.save_assistants: load_config() yields None for an      *)
(* empty file and the item assignment raises                               *)
save_assistants(dict, file, w) ==
  IF file.state = "empty" THEN file
  ELSE save_config(file, [i \in 1..Len(dict) |-> AsDict(dict[i])], w)

(* AssistantManager.__init__: the defaults, then the saved ones over them *)
load_default_assistants(dict) == PutAll(dict, DEFAULT_ASSISTANTS)

load_saved_assistants(dict, file) ==
  IF file.state = "mapping" /\ file.has_key THEN PutAll(dict, file.assistants)
  ELSE dict

AssistantManagerInit_DefaultsLast(file) ==
  load_default_assistants(load_saved_assistants(<<>>, file))

AssistantManagerInit(file) ==
  load_saved_assistants(load_default_assistants(<<>>), file)

(* As add_assistant, but writing over an entry whose id is taken *)
add_assistant_Overwrite(name, role, prompt, w) ==
  /\ LET assistant_id == DeriveId(name)
         dict == Put(assistants, assistant_id,
                     Entry(assistant_id, Assistant(assistant_id, name, role, prompt)))
     IN /\ assistants' = dict
        /\ config_file' = save_assistants(dict, config_file, w)
        /\ returned' = "True"
  /\ UNCHANGED <<engineVars, now, workflowVars, uiVars>>

add_assistant(name, role, prompt, w) ==
  /\ LET assistant_id == DeriveId(name) IN
     IF assistant_id \in Keys(assistants)
     THEN /\ returned' = "False"
          /\ UNCHANGED <<assistants, config_file>>
     ELSE LET dict == Put(assistants, assistant_id,
                          Entry(assistant_id, Assistant(assistant_id, name, role, prompt)))
          IN /\ assistants' = dict
             /\ config_file' = save_assistants(dict, config_file, w)
             /\ returned' = "True"
  /\ UNCHANGED <<engineVars, now, workflowVars, uiVars>>

(* The fields setattr reaches: every attribute the object has *)
AssistantFields == {"id", "name", "role", "prompt", "created_at", "modified_at"}

update_assistant(assistant_id, data, w) ==
  /\ ClockRuns
  /\ IF assistant_id \notin Keys(assistants)
     THEN /\ returned' = "False"
          /\ UNCHANGED <<assistants, config_file, now>>
     ELSE LET old == assistants[IndexOf(assistants, assistant_id)]
              set(f) == IF f \in DOMAIN data /\ f \in AssistantFields
                        THEN data[f] ELSE old[f]
              new == [key |-> old.key, id |-> set("id"), name |-> set("name"),
                      role |-> set("role"), prompt |-> set("prompt"),
                      created_at |-> set("created_at"), modified_at |-> now + 1]
              dict == [assistants EXCEPT ![IndexOf(assistants, assistant_id)] = new]
          IN /\ assistants' = dict
             /\ now' = now + 1
             /\ config_file' = save_assistants(dict, config_file, w)
             /\ returned' = "True"
  /\ UNCHANGED <<engineVars, workflowVars, uiVars>>

delete_assistant(assistant_id, w) ==
  /\ IF assistant_id \notin Keys(assistants)
     THEN /\ returned' = "False"
          /\ UNCHANGED <<assistants, config_file>>
     ELSE LET dict == Remove(assistants, assistant_id)
          IN /\ assistants' = dict
             /\ config_file' = save_assistants(dict, config_file, w)
             /\ returned' = "True"
  /\ UNCHANGED <<engineVars, now, workflowVars, uiVars>>

(* AssistantManager.get_assistant *)
HasAssistant(assistant_id) == assistant_id \in Keys(assistants)

get_assistant(assistant_id) == assistants[IndexOf(assistants, assistant_id)]

(* ChatInterface.get_assistant_choices: f"{name} ({role})" *)
get_assistant_choices ==
  [i \in 1..Len(assistants) |->
     assistants[i].name \o <<" (">> \o assistants[i].role \o <<")">>]

----------------------------------------------------------------------------
(* WorkflowManager *)

(* list.copy(): a new list object holding the same items.  same_object      *)
(* tells whether the result is the list it was taken from.                   *)
ListCopy_Alias(list) == [items |-> list, same_object |-> TRUE]

ListCopy(list) == [items |-> list, same_object |-> FALSE]

(* An entry of the workflows dict.  steps_is_draft tells whether the steps  *)
(* list is the very list object current_workflow names.                      *)
Workflow(name, steps, description) ==
  [key |-> name, name |-> name, steps |-> steps, description |-> description,
   created_at |-> ImportTime, modified_at |-> ImportTime, steps_is_draft |-> FALSE]

AbsentWorkflows == [state |-> "absent", data |-> <<>>]

(* step_id: str = "" *)
NoStepId == 0

(* WorkflowStep.__post_init__ *)
post_init(step, t) ==
  IF step.step_id = NoStepId THEN [step EXCEPT !.step_id = t] ELSE step

(* As to_dict, but leaving the step ids out *)
to_dict_NoStepIds(wf) ==
  [name |-> wf.name,
   steps |-> [j \in 1..Len(wf.steps) |-> [wf.steps[j] EXCEPT !.step_id = NoStepId]],
   description |-> wf.description,
   created_at |-> wf.created_at, modified_at |-> wf.modified_at]

(* Workflow.to_dict: the steps through asdict *)
to_dict(wf) ==
  [name |-> wf.name,
   steps |-> [j \in 1..Len(wf.steps) |->
                [assistants |-> wf.steps[j].assistants,
                 is_parallel |-> wf.steps[j].is_parallel,
                 step_id |-> wf.steps[j].step_id]],
   description |-> wf.description,
   created_at |-> wf.created_at, modified_at |-> wf.modified_at]

(* WorkflowManager.save_workflows: open(..., 'w') and json.dump of the      *)
(* object {name: workflow.to_dict()}                                         *)
save_workflows(dict, file, w) ==
  CASE w = "ok" -> [state |-> "mapping",
                    data |-> [i \in 1..Len(dict) |->
                                [key |-> dict[i].key, value |-> to_dict(dict[i])]]]
    [] w = "denied" -> file
    [] OTHER -> [state |-> "empty", data |-> <<>>]

(* WorkflowManager.load_workflows: the values of the object, each stored    *)
(* under its own name; a file that does not parse leaves the dict empty      *)
RECURSIVE LoadAll(_, _, _)
LoadAll(dict, data, t) ==
  IF data = <<>> THEN dict
  ELSE LET workflow_data == Head(data).value
           loaded == [Workflow(workflow_data.name,
                               [j \in 1..Len(workflow_data.steps) |->
                                  post_init(WorkflowStep(workflow_data.steps[j].assistants,
                                                         workflow_data.steps[j].is_parallel,
                                                         workflow_data.steps[j].step_id), t)],
                               workflow_data.description)
                        EXCEPT !.created_at = workflow_data.created_at,
                               !.modified_at = workflow_data.modified_at]
       IN LoadAll(Put(dict, loaded.name, loaded), Tail(data), t)

load_workflows(file, t) ==
  IF file.state = "mapping" THEN LoadAll(<<>>, file.data, t) ELSE <<>>

(* [str(a) for a in assistants if a] *)
NonBlank_Keep(list) == list

NonBlank(list) == SelectSeq(list, LAMBDA a : a # <<>>)

(* Every call of process_message that was handed the draft list itself sees *)
(* what is appended to it                                                   *)
AppendToDraft(step) ==
  [r \in DOMAIN runs |->
     IF runs[r].alias /\ runs[r].pc \in {"await", "gather"}
     THEN [runs[r] EXCEPT !.workflow = Append(@, step)]
     ELSE runs[r]]

Unaliased ==
  [r \in DOMAIN runs |-> [runs[r] EXCEPT !.alias = FALSE]]

(* Every saved workflow whose steps list is the draft list sees what is     *)
(* appended to the draft                                                     *)
AppendToShared(step) ==
  [i \in 1..Len(workflows) |->
     IF workflows[i].steps_is_draft
     THEN [workflows[i] EXCEPT !.steps = Append(@, step)]
     ELSE workflows[i]]

(* current_workflow is bound to another list object *)
Unshared ==
  [i \in 1..Len(workflows) |-> [workflows[i] EXCEPT !.steps_is_draft = FALSE]]

add_step(list, is_parallel) ==
  /\ ClockRuns
  /\ Len(current_workflow) < MaxSteps
  /\ SumLens(current_workflow) + Len(list) <= MaxCalls
  /\ IF list = <<>> \/ NonBlank(list) = <<>>
     THEN /\ returned' = "False"
          /\ UNCHANGED <<current_workflow, workflows, now, runs>>
     ELSE LET step == WorkflowStep(NonBlank(list), is_parallel, now + 1)
          IN /\ current_workflow' = Append(current_workflow, step)
             /\ workflows' = AppendToShared(step)
             /\ runs' = AppendToDraft(step)
             /\ now' = now + 1
             /\ returned' = "True"
  /\ UNCHANGED <<system_state, client, conversation_history, calls>>
  /\ UNCHANGED <<assistantVars, workflow_file, uiVars>>

save_current_workflow(name, description, w) ==
  /\ IF name = <<>> \/ current_workflow = <<>>
     THEN /\ returned' = "False"
          /\ UNCHANGED <<workflows, workflow_file>>
     ELSE LET steps == ListCopy(current_workflow)
              workflow == [Workflow(name, steps.items, description)
                             EXCEPT !.steps_is_draft = steps.same_object]
              dict == Put(workflows, name, workflow)
          IN /\ workflows' = dict
             /\ workflow_file' = save_workflows(dict, workflow_file, w)
             /\ returned' = "True"
  /\ UNCHANGED <<engineVars, assistantVars, current_workflow, now, uiVars>>

load_workflow(name) ==
  /\ IF name \notin Keys(workflows)
     THEN /\ returned' = "False"
          /\ UNCHANGED <<current_workflow, workflows, runs>>
     ELSE LET i == IndexOf(workflows, name)
              steps == ListCopy(workflows[i].steps)
          IN /\ current_workflow' = steps.items
             /\ workflows' = [j \in 1..Len(workflows) |->
                                [workflows[j] EXCEPT
                                   !.steps_is_draft = (j = i /\ steps.same_object)]]
             /\ runs' = Unaliased
             /\ returned' = "True"
  /\ UNCHANGED <<system_state, client, conversation_history, calls>>
  /\ UNCHANGED <<assistantVars, workflow_file, now>>

(* ChatInterface: the handlers bound to the widgets *)

(* init_btn.click: init_system *)
init_system(api_key_value, ok) ==
  IF api_key_value = <<>> THEN UNCHANGED vars ELSE initialize(ok)

(* add_parallel_btn.click / add_sequential_btn.click *)
add_step_click(x, is_parallel) == add_step(x, is_parallel)

(* refresh_workflow_btn.click: refresh_workflow_list *)
refresh_workflow_list ==
  /\ active_choices' = Keys(workflows)
  /\ UNCHANGED <<engineVars, assistantVars, workflowVars, now, returned, active_workflow>>

(* active_workflow.change: load_active_workflow *)
load_active_workflow(workflow_name) ==
  /\ workflow_name \in active_choices
  /\ workflow_name # active_workflow
  /\ active_workflow' = workflow_name
  /\ UNCHANGED active_choices
  /\ IF workflow_name = <<>>
     THEN UNCHANGED <<engineVars, assistantVars, workflowVars, now, returned>>
     ELSE load_workflow(workflow_name)

(* send_btn.click: process_message_with_log, which hands the draft list to *)
(* process_message                                                          *)
process_message_with_log(r, message, workflow_name, model) ==
  IF message = EmptyStr \/ client = "None" \/ workflow_name = <<>>
  THEN UNCHANGED vars
  ELSE process_message(r, message, current_workflow, TRUE, model)

clear_current_workflow ==
  /\ current_workflow' = <<>>
  /\ workflows' = Unshared
  /\ runs' = Unaliased
  /\ returned' = "None"
  /\ UNCHANGED <<system_state, client, conversation_history, calls>>
  /\ UNCHANGED <<assistantVars, workflow_file, now, uiVars>>

(* save_workflow_btn.click *)
save_workflow_click(name, desc, w) == save_current_workflow(name, desc, w)

InitStores ==
  /\ config_file = AbsentConfig
  /\ assistants = AssistantManagerInit(config_file)
  /\ workflow_file = AbsentWorkflows
  /\ workflows = <<>>
  /\ current_workflow = <<>>
  /\ now = 0
  /\ returned = "None"
  /\ active_workflow = <<>>
  /\ active_choices = {}

----------------------------------------------------------------------------
(* The engine driven directly with any step list *)

Init == InitEngine /\ InitStores

Initialize == \E ok \in BOOLEAN : initialize(ok)

Call ==
  \E r \in RunIds, m \in Messages, w \in WorkflowArgs, model \in Models :
    process_message(r, m, w, FALSE, model)

DispatchTask == \E r \in RunIds, k \in 1..MaxStepLen : Dispatch(r, k)

CallReturns == \E r \in RunIds, out \in Outcomes : SequentialReturn(r, out)

TaskReturns ==
  \E r \in RunIds, k \in 1..MaxStepLen, out \in Outcomes : GatherReturn(r, k, out)

OrphanReturns == \E c \in 1..MaxCalls : OrphanReturn(c)

Next ==
  \/ Initialize
  \/ Call
  \/ DispatchTask
  \/ CallReturns
  \/ TaskReturns
  \/ OrphanReturns

Spec == Init /\ [][Next]_vars

(* The engine with every request it issues answered.  Which assistant a    *)
(* step names and what a reply says do not bear on how a run proceeds, so   *)
(* one identifier and one reply are used.                                   *)
LiveWorkflowArgs ==
  { w \in WorkflowArgs :
      \A i \in 1..Len(w) : \A k \in 1..Len(w[i].assistants) :
        w[i].assistants[k] = <<"reviewer">> }

LiveOutcomes == { out \in Outcomes : out.text \in {None, <<"p">>} }

InitLive == Init /\ conversation_history = <<>>

LiveCall ==
  \E r \in RunIds, m \in Messages, w \in LiveWorkflowArgs, model \in Models :
    process_message(r, m, w, FALSE, model)

LiveCallReturns == \E r \in RunIds, out \in LiveOutcomes : SequentialReturn(r, out)

LiveTaskReturns ==
  \E r \in RunIds, k \in 1..MaxStepLen, out \in LiveOutcomes : GatherReturn(r, k, out)

NextLive ==
  \/ Initialize
  \/ LiveCall
  \/ DispatchTask
  \/ LiveCallReturns
  \/ LiveTaskReturns
  \/ OrphanReturns

(* The event loop runs every task it has created, and every request issued *)
(* returns or raises                                                        *)
Fairness ==
  /\ WF_vars(DispatchTask)
  /\ WF_vars(LiveCallReturns)
  /\ WF_vars(LiveTaskReturns)

SpecLive == InitLive /\ [][NextLive]_vars /\ Fairness

----------------------------------------------------------------------------
(* The engine over the identifiers of the Assistant Store, while the store *)
(* is edited                                                                *)

NewNames == {<<"Reviewer">>}
EditedIds == {<<"reviewer">>, <<"doc", "_", "bot">>}
UpdateData == { [prompt |-> <<"prompt1">>], [id |-> <<"doc", "_", "bot">>] }

StoreWorkflowArgs ==
  { <<WorkflowStep(<<id>>, FALSE, 1)>> : id \in EditedIds }
    \cup { <<WorkflowStep(<<<<"reviewer">>, <<"code", "_", "expert">>>>, TRUE, 1)>> }

AddAssistant ==
  \E name \in NewNames, w \in WriteOutcomes :
    add_assistant(name, <<"role1">>, <<"prompt1">>, w)

UpdateAssistant ==
  \E id \in EditedIds, data \in UpdateData, w \in WriteOutcomes :
    update_assistant(id, data, w)

DeleteAssistant ==
  \E id \in EditedIds, w \in WriteOutcomes : delete_assistant(id, w)

CallStored ==
  \E r \in RunIds, m \in Messages, w \in StoreWorkflowArgs, model \in Models :
    process_message(r, m, w, FALSE, model)

NextStore ==
  \/ Initialize
  \/ AddAssistant
  \/ UpdateAssistant
  \/ DeleteAssistant
  \/ CallStored
  \/ DispatchTask
  \/ CallReturns
  \/ TaskReturns
  \/ OrphanReturns

SpecStore == Init /\ [][NextStore]_vars

----------------------------------------------------------------------------
(* The application as its widgets drive it *)

(* What the CheckboxGroup hands over: chosen entries of the choices *)
ClickedIds == {<<"reviewer">>, <<"code", "_", "expert">>}

ClickedChoices ==
  { get_assistant_choices[i] : i \in {j \in 1..Len(assistants) : assistants[j].key \in ClickedIds} }

Selections ==
  { x \in SeqsUpTo(ClickedChoices, MaxStepLen) :
      \A i, j \in 1..Len(x) : i # j => x[i] # x[j] }

InitClick == \E key \in {<<>>, <<"sk">>}, ok \in BOOLEAN : init_system(key, ok)

AddStepClick == \E x \in Selections, par \in BOOLEAN : add_step_click(x, par)

ClearClick == clear_current_workflow

SaveWorkflowClick ==
  \E name \in {<<>>, <<"W">>}, w \in WriteOutcomes : save_workflow_click(name, <<>>, w)

RefreshWorkflowsClick == refresh_workflow_list

SelectWorkflow == \E name \in active_choices : load_active_workflow(name)

Send ==
  \E r \in RunIds, m \in Messages \cup {EmptyStr}, model \in Models :
    process_message_with_log(r, m, active_workflow, model)

NextUI ==
  \/ InitClick
  \/ AddStepClick
  \/ ClearClick
  \/ SaveWorkflowClick
  \/ RefreshWorkflowsClick
  \/ SelectWorkflow
  \/ Send
  \/ DispatchTask
  \/ CallReturns
  \/ TaskReturns
  \/ OrphanReturns

SpecUI == Init /\ [][NextUI]_vars

----------------------------------------------------------------------------
(* The stores driven directly, with the program stopped and started again   *)
(* over the files it left                                                    *)

(* ChatInterface.__init__ and create_interface over config.yaml and         *)
(* workflows.json as they are.  Taken with no call in progress.  The         *)
(* defaults keep ImportTime as their timestamps.                             *)
Restart ==
  /\ \A r \in DOMAIN runs : ~(runs[r].pc \in {"await", "gather"})
  /\ \A c \in 1..Len(calls) : calls[c].status # "inflight"
  /\ assistants' = AssistantManagerInit(config_file)
  /\ workflows' = load_workflows(workflow_file, now + 1)
  /\ current_workflow' = <<>>
  /\ system_state' = "UNINITIALIZED"
  /\ client' = "None"
  /\ conversation_history' = <<>>
  /\ runs' = [r \in DOMAIN runs |-> IdleRun]
  /\ calls' = <<>>
  /\ returned' = "None"
  /\ active_workflow' = <<>>
  /\ active_choices' = Keys(workflows')
  /\ UNCHANGED <<config_file, workflow_file, now>>

(* A program just started, with nothing said yet *)
InitFiles == Init /\ conversation_history = <<>>

FileNames == {<<"Reviewer">>, <<"Doc", " ", "Bot">>}
FileIds == {<<"reviewer">>, <<"doc", "_", "bot">>}
FileData == { [name |-> <<"Renamed">>], [id |-> <<"doc", "_", "bot">>] }
StepLists ==
  { <<>>, << <<>> >>, << <<>>, <<"reviewer">> >>,
    << <<"code", "_", "expert">>, <<"reviewer">> >> }
WorkflowNames == {<<>>, <<"W">>}

FileAddAssistant ==
  \E name \in FileNames, w \in WriteOutcomes :
    add_assistant(name, <<"role1">>, <<"prompt1">>, w)

FileUpdateAssistant ==
  \E id \in FileIds, data \in FileData, w \in WriteOutcomes :
    update_assistant(id, data, w)

FileDeleteAssistant ==
  \E id \in FileIds, w \in WriteOutcomes : delete_assistant(id, w)

NextAssistantFiles ==
  \/ FileAddAssistant
  \/ FileUpdateAssistant
  \/ FileDeleteAssistant
  \/ Restart

SpecAssistantFiles == InitFiles /\ [][NextAssistantFiles]_vars

AddStep == \E list \in StepLists, par \in BOOLEAN : add_step(list, par)

SaveCurrentWorkflow ==
  \E name \in WorkflowNames, w \in WriteOutcomes :
    save_current_workflow(name, <<>>, w)

LoadWorkflow ==
  \E name \in WorkflowNames \ {<<>>} : load_workflow(name) /\ UNCHANGED uiVars

NextWorkflowFiles ==
  \/ AddStep
  \/ SaveCurrentWorkflow
  \/ LoadWorkflow
  \/ ClearClick
  \/ Restart

SpecWorkflowFiles == InitFiles /\ [][NextWorkflowFiles]_vars

(* Drafts saved under two names, written, and read back by a new program *)
SavedNames == {<<"W">>, <<"V">>}

SaveAs ==
  \E name \in SavedNames, w \in WriteOutcomes :
    save_current_workflow(name, <<>>, w)

NextRoundTrip ==
  \/ AddStep
  \/ SaveAs
  \/ Restart

SpecRoundTrip == InitFiles /\ [][NextRoundTrip]_vars

----------------------------------------------------------------------------
(* One ChatManager serving two submits: process_message is a coroutine and  *)
(* holds no lock, so a second call may enter while the first is suspended   *)

Callers == {1, 2}
SessionMessage(r) == IF r = 1 THEN <<"x">> ELSE <<"y">>

SessionWorkflowArgs ==
  { w \in WorkflowArgs :
      /\ Len(w) = 1
      /\ w[1].assistants \in {<<<<"reviewer">>>>, <<<<"code", "_", "expert">>, <<"reviewer">>>>} }

(* The requests that the calls in progress have yet to issue or have issued *)
RECURSIVE Planned(_)
Planned(S) ==
  IF S = {} THEN 0
  ELSE LET r == CHOOSE x \in S : TRUE
       IN (IF runs[r].pc = "idle" THEN 0 ELSE SumLens(runs[r].workflow))
            + Planned(S \ {r})

InitSession ==
  /\ system_state = "UNINITIALIZED"
  /\ client = "None"
  /\ conversation_history = <<>>
  /\ runs = [r \in Callers |-> IdleRun]
  /\ calls = <<>>
  /\ InitStores

SessionCall ==
  \E r \in Callers, w \in SessionWorkflowArgs, model \in Models :
    /\ Planned(Callers) + SumLens(w) <= MaxCalls
    /\ process_message(r, SessionMessage(r), w, FALSE, model)

SessionDispatch == \E r \in Callers, k \in 1..MaxStepLen : Dispatch(r, k)

SessionCallReturns == \E r \in Callers, out \in Outcomes : SequentialReturn(r, out)

SessionTaskReturns ==
  \E r \in Callers, k \in 1..MaxStepLen, out \in Outcomes : GatherReturn(r, k, out)

NextSession ==
  \/ Initialize
  \/ SessionCall
  \/ SessionDispatch
  \/ SessionCallReturns
  \/ SessionTaskReturns
  \/ OrphanReturns

SpecSession == InitSession /\ [][NextSession]_vars

----------------------------------------------------------------------------
(* The request log read back: which call served which place of the workflow *)

CallsOf(r) == {c \in 1..Len(calls) : calls[c].run = r}

IsAt(c, r, s, k) == calls[c].run = r /\ calls[c].step = s /\ calls[c].pos = k

Issued(r, s, k) == \E c \in 1..Len(calls) : IsAt(c, r, s, k)

At(r, s, k) == CHOOSE c \in 1..Len(calls) : IsAt(c, r, s, k)

(* text is the items of list separated by line breaks *)
RECURSIVE IsNewlineJoin(_, _)
IsNewlineJoin(text, list) ==
  IF list = <<>> THEN text = <<"">>
  ELSE IF Len(list) = 1 THEN text = list[1]
  ELSE /\ Len(text) >= Len(list[1])
       /\ SubSeq(text, 1, Len(list[1])) = list[1]
       /\ IsNewlineJoin(SubSeq(text, Len(list[1]) + 1, Len(text)), Tail(list))

StepResults(r, s) ==
  [k \in 1..Len(runs[r].workflow[s].assistants) |-> calls[At(r, s, k)].result]

(* text is what step s of run r starts from *)
RECURSIVE IsStepInput(_, _, _)
IsStepInput(text, r, s) ==
  IF s = 1 THEN text = runs[r].message
  ELSE LET prev == runs[r].workflow[s - 1]
           n == Len(prev.assistants)
       IN IF prev.is_parallel THEN IsNewlineJoin(text, StepResults(r, s - 1))
          ELSE IF n = 0 THEN IsStepInput(text, r, s - 1)
          ELSE text = calls[At(r, s - 1, n)].result

RECURSIVE ResultsThrough(_, _)
ResultsThrough(r, s) ==
  IF s = 0 THEN <<>> ELSE ResultsThrough(r, s - 1) \o StepResults(r, s)

Running(r) == runs[r].pc \in {"await", "gather"}

----------------------------------------------------------------------------
(* C1: every request carries the message the algorithm prescribes: the      *)
(* calls of a parallel step all carry the message the step began with, a    *)
(* sequential call carries the result of the call before it (the step's     *)
(* input for the first), a step after a parallel step starts from the       *)
(* newline-join of that step's results, and the first step starts from the  *)
(* user's message.                                                          *)
C1_MessagePropagation ==
  /\ \A c \in 1..Len(calls) :
       LET call == calls[c]
           step == runs[call.run].workflow[call.step]
       IN /\ call.assistant = step.assistants[call.pos]
          /\ IF ~step.is_parallel /\ call.pos > 1
             THEN /\ Issued(call.run, call.step, call.pos - 1)
                  /\ call.user = calls[At(call.run, call.step, call.pos - 1)].result
             ELSE IsStepInput(call.user, call.run, call.step)
  /\ \A r \in RunIds :
       /\ runs[r].pc = "gather" => IsStepInput(runs[r].current_message, r, runs[r].step)
       /\ runs[r].pc = "done" =>
            IsStepInput(runs[r].current_message, r, Len(runs[r].workflow) + 1)

C1_Witness ==
  \E c \in 1..Len(calls) :
    /\ calls[c].step = 2
    /\ runs[calls[c].run].workflow[1].is_parallel
    /\ calls[c].user = <<"q", "p">>

(* C2: a completed run returns the newline-join of all results in step     *)
(* order and, within a step, in the declared order of its assistants,       *)
(* whatever the order the calls of a parallel step came back in.            *)
C2_ResultOrder ==
  \A r \in RunIds :
    runs[r].pc = "done" =>
      /\ \A s \in 1..Len(runs[r].workflow) :
           \A k \in 1..Len(runs[r].workflow[s].assistants) :
             /\ Issued(r, s, k)
             /\ calls[At(r, s, k)].status = "ok"
      /\ Cardinality(CallsOf(r)) = SumLens(runs[r].workflow)
      /\ IsNewlineJoin(runs[r].final_response,
                       ResultsThrough(r, Len(runs[r].workflow)))

C2_Witness ==
  \E r \in RunIds :
    /\ runs[r].pc = "done"
    /\ runs[r].overtaken
    /\ runs[r].workflow[1].is_parallel
    /\ runs[r].final_response = <<"p", "q">>

(* C3: a completed run has added to the history the user's message and     *)
(* then the final response, and nothing else; while it runs only the user's *)
(* message has been added.                                                  *)
C3_HistoryOfCompletedRun ==
  \A r \in RunIds :
    /\ runs[r].pc = "done" =>
         conversation_history =
           runs[r].hist0 \o <<Message("user", runs[r].message),
                              Message("assistant", runs[r].final_response)>>
    /\ Running(r) =>
         conversation_history = Append(runs[r].hist0, Message("user", runs[r].message))

C3_Witness ==
  \E r \in RunIds :
    /\ runs[r].pc = "done"
    /\ runs[r].hist0 # <<>>
    /\ Len(runs[r].results) >= 2

(* C4: a run that failed has added to the history the user's message and   *)
(* no assistant message.                                                    *)
C4_HistoryOfFailedRun ==
  \A r \in RunIds :
    runs[r].pc = "failed" =>
      conversation_history = Append(runs[r].hist0, Message("user", runs[r].message))

C4_Witness ==
  \E r \in RunIds :
    /\ runs[r].pc = "failed"
    /\ runs[r].step = 2
    /\ runs[r].workflow[2].is_parallel
    /\ runs[r].results # <<>>
    /\ runs[r].hist0 # <<>>

Mentions(text, tokens) == \E i \in 1..Len(text) : text[i] \in tokens

Range(f) == {f[i] : i \in DOMAIN f}

(* C5: the error of a run whose completion call failed names the assistant *)
(* of that call or the step it belongs to.                                  *)
C5_ErrorNamesFailingCall ==
  \A c \in 1..Len(calls) :
    (calls[c].status = "failed" /\ runs[calls[c].run].pc = "failed") =>
      Mentions(runs[calls[c].run].error,
               Range(calls[c].assistant) \cup {ToString(calls[c].step)})

(* C6: a call made while the system is not INITIALIZED issues no request   *)
(* and leaves the history as it is.                                         *)
C6_FailFast ==
  [][\A r \in RunIds :
       (runs[r].pc = "idle" /\ system_state # "INITIALIZED") =>
         /\ runs'[r].pc = "idle"
         /\ calls' = calls
         /\ conversation_history' = conversation_history]_vars

C6_Witness ==
  \E r \in RunIds :
    /\ runs[r].pc = "idle"
    /\ runs[r].error = NotInitializedError
    /\ runs[r].state0 = "ERROR"
    /\ client = "OpenAI"

(* C7: the system message of every request issued is built from the role   *)
(* and the prompt that the Assistant Store holds, at that moment, for the   *)
(* identifier the step names.                                               *)
C7_ContextIsPersona ==
  [][\A c \in (Len(calls) + 1)..Len(calls') :
       HasAssistant(calls'[c].assistant) =>
         /\ Range(get_assistant(calls'[c].assistant).prompt) \subseteq Range(calls'[c].system)
         /\ Range(get_assistant(calls'[c].assistant).role) \subseteq Range(calls'[c].system)]_vars

(* C8: a submit runs the steps the Workflow Store holds, at that moment,    *)
(* under the chosen workflow name, and so never an empty list of steps.     *)
C8_SubmitRunsStoredWorkflow ==
  [][\A r \in RunIds :
       (runs[r].pc = "idle" /\ runs'[r].pc # "idle") =>
         /\ active_workflow \in Keys(workflows)
         /\ runs'[r].workflow = workflows[IndexOf(workflows, active_workflow)].steps
         /\ runs'[r].workflow # <<>>]_vars

(* C9: when a call of step s is issued every call of the steps before s    *)
(* has been issued and has returned, and in a sequential step so has every  *)
(* call before it in the step.                                              *)
C9_StepOrder ==
  \A c \in 1..Len(calls) :
    LET call == calls[c]
        wf == runs[call.run].workflow
    IN /\ \A s \in 1..(call.step - 1) : \A k \in 1..Len(wf[s].assistants) :
            /\ Issued(call.run, s, k)
            /\ calls[At(call.run, s, k)].status = "ok"
       /\ ~wf[call.step].is_parallel =>
            \A k \in 1..(call.pos - 1) :
              /\ Issued(call.run, call.step, k)
              /\ calls[At(call.run, call.step, k)].status = "ok"
       /\ \A d \in 1..Len(calls) :
            (d # c /\ calls[d].run = call.run) =>
              (calls[d].step # call.step \/ calls[d].pos # call.pos)

C9_Witness ==
  \E c \in 1..Len(calls) :
    /\ calls[c].status = "inflight"
    /\ calls[c].step = 2
    /\ Len(runs[calls[c].run].workflow[1].assistants) = 2
    /\ runs[calls[c].run].workflow[1].is_parallel

(* C10: in a parallel step a call not yet issued can be issued whatever    *)
(* its siblings are doing, and none has returned before all are issued.     *)
C10_FanOut ==
  \A r \in RunIds :
    runs[r].pc = "gather" =>
      \A k \in 1..Len(runs[r].tasks) :
        /\ runs[r].tasks[k].status = "created" => ENABLED Dispatch(r, k)
        /\ runs[r].tasks[k].status = "ok" => AllDispatched(runs[r])

C10_Witness ==
  \E r \in RunIds :
    /\ runs[r].pc = "gather"
    /\ Len(runs[r].tasks) = MaxStepLen
    /\ \A k \in 1..Len(runs[r].tasks) : runs[r].tasks[k].status = "inflight"

(* C11: at most one call of process_message is in progress at a time, so   *)
(* what a call adds to the history is not interleaved with what another     *)
(* call adds.                                                               *)
C11_OneRunAtATime ==
  /\ Cardinality({r \in DOMAIN runs : Running(r)}) <= 1
  /\ \A r \in DOMAIN runs :
       runs[r].pc = "done" =>
         \E i \in 1..(Len(conversation_history) - 1) :
           /\ conversation_history[i] = Message("user", runs[r].message)
           /\ conversation_history[i + 1] = Message("assistant", runs[r].final_response)

(* C12: an Assistant Store operation that is rejected, add_assistant with a *)
(* name whose derived id is present, update_assistant or delete_assistant   *)
(* with an id that is not present, returns False and leaves the mapping and *)
(* the persisted list as they were.                                         *)
C12_RejectedLeavesStore ==
  [][/\ \A name \in NewNames, w \in WriteOutcomes :
          (DeriveId(name) \in Keys(assistants)
             /\ add_assistant(name, <<"role1">>, <<"prompt1">>, w)) =>
            (returned' = "False" /\ UNCHANGED assistantVars)
     /\ \A id \in EditedIds, data \in UpdateData, w \in WriteOutcomes :
          (id \notin Keys(assistants) /\ update_assistant(id, data, w)) =>
            (returned' = "False" /\ UNCHANGED assistantVars)
     /\ \A id \in EditedIds, w \in WriteOutcomes :
          (id \notin Keys(assistants) /\ delete_assistant(id, w)) =>
            (returned' = "False" /\ UNCHANGED assistantVars)]_vars

(* reviewer was deleted, the list was written, and a later operation on it  *)
(* was rejected                                                             *)
C12_Witness ==
  /\ returned = "False"
  /\ <<"reviewer">> \notin Keys(assistants)
  /\ config_file.state = "mapping"
  /\ Len(config_file.assistants) = Len(assistants)

(* C13: update_assistant leaves id and created_at as they were, so every   *)
(* entry of the mapping has the id it is stored under.                      *)
C13_KeyIsId ==
  \A i \in 1..Len(assistants) :
    /\ assistants[i].id = assistants[i].key
    /\ assistants[i].created_at = ImportTime

AllBlank(list) == \A i \in 1..Len(list) : list[i] = <<>>

StoredSteps == [i \in 1..Len(workflows) |-> workflows[i].steps]

(* C14: add_step with a selection that is empty or all blank, and           *)
(* save_current_workflow with an empty name or an empty draft, return False *)
(* and leave the draft, the saved workflows and their file as they were; no *)
(* step of the draft has an empty assistants list or a blank identifier and *)
(* no saved workflow has zero steps.                                        *)
C14_RejectedLeavesWorkflows ==
  /\ [][/\ \A list \in StepLists, par \in BOOLEAN :
              (AllBlank(list) /\ add_step(list, par)) =>
                (returned' = "False" /\ UNCHANGED workflowVars)
         /\ \A name \in WorkflowNames, w \in WriteOutcomes :
              ((name = <<>> \/ current_workflow = <<>>)
                 /\ save_current_workflow(name, <<>>, w)) =>
                (returned' = "False" /\ UNCHANGED workflowVars)]_vars
  /\ [](/\ \A j \in 1..Len(current_workflow) :
              /\ current_workflow[j].assistants # <<>>
              /\ ~(<<>> \in Range(current_workflow[j].assistants))
         /\ \A i \in 1..Len(workflows) : workflows[i].steps # <<>>)

(* With W saved, only add_step or save_current_workflow can have returned  *)
(* False                                                                    *)
C14_Witness ==
  /\ returned = "False"
  /\ Keys(workflows) = {<<"W">>}
  /\ Len(current_workflow) > Len(workflows[1].steps)

(* C15: add_step and clear_current_workflow leave the steps of every saved  *)
(* workflow as they were, whether the draft was loaded from it or saved as  *)
(* it; a save stores the draft as it is at that moment and a load makes the *)
(* draft equal to the stored steps.                                         *)
C15_DraftNotAliased ==
  [][/\ ((\E list \in StepLists, par \in BOOLEAN : add_step(list, par))
            \/ clear_current_workflow) =>
          StoredSteps' = StoredSteps
     /\ \A name \in WorkflowNames, w \in WriteOutcomes :
          (save_current_workflow(name, <<>>, w) /\ returned' = "True") =>
            /\ workflows'[IndexOf(workflows', name)].steps = current_workflow
            /\ \A i \in 1..Len(workflows) :
                 workflows[i].key # name =>
                   workflows'[i].steps = workflows[i].steps
     /\ \A name \in WorkflowNames :
          (load_workflow(name) /\ returned' = "True") =>
            /\ current_workflow' = workflows[IndexOf(workflows, name)].steps
            /\ StoredSteps' = StoredSteps]_vars

(* The draft was saved or loaded with one step and has grown since *)
C15_Witness ==
  \E i \in 1..Len(workflows) :
    /\ Len(workflows[i].steps) = 1
    /\ Len(current_workflow) = 2
    /\ current_workflow[1] = workflows[i].steps[1]

(* C16: writing the saved workflows with save_workflows and reading the     *)
(* file back with load_workflows gives the same names and, under each name, *)
(* the same steps: as many, with the same is_parallel, step_id and          *)
(* assistants in the same order.                                            *)
C16_RoundTrip ==
  LET file == save_workflows(workflows, workflow_file, "ok")
      back == load_workflows(file, now + 1)
  IN /\ Keys(back) = Keys(workflows)
     /\ Len(back) = Len(workflows)
     /\ \A i \in 1..Len(workflows) :
          LET old == workflows[i].steps
              new == back[IndexOf(back, workflows[i].key)].steps
          IN /\ Len(new) = Len(old)
             /\ \A j \in 1..Len(old) :
                  /\ new[j].is_parallel = old[j].is_parallel
                  /\ new[j].step_id = old[j].step_id
                  /\ new[j].assistants = old[j].assistants

(* The program was started again over a file of two workflows *)
C16_Witness ==
  /\ active_choices = {<<"W">>, <<"V">>}
  /\ Keys(workflows) = active_choices
  /\ \E i \in 1..Len(workflows) :
       /\ Len(workflows[i].steps) = 2
       /\ workflows[i].steps[1].is_parallel # workflows[i].steps[2].is_parallel

AssistantsPersisted ==
  /\ config_file.state = "mapping"
  /\ config_file.has_key
  /\ config_file.assistants = [i \in 1..Len(assistants) |-> AsDict(assistants[i])]

WorkflowsPersisted ==
  /\ workflow_file.state = "mapping"
  /\ workflow_file.data =
       [i \in 1..Len(workflows) |->
          [key |-> workflows[i].key, value |-> to_dict(workflows[i])]]

(* C17: when add_assistant, update_assistant, delete_assistant or           *)
(* save_current_workflow returns True the file holds what the store holds.  *)
C17_TrueMeansPersisted ==
  [][/\ (FileAddAssistant /\ returned' = "True") => AssistantsPersisted'
     /\ (FileUpdateAssistant /\ returned' = "True") => AssistantsPersisted'
     /\ (FileDeleteAssistant /\ returned' = "True") => AssistantsPersisted'
     /\ (SaveCurrentWorkflow /\ returned' = "True") => WorkflowsPersisted']_vars

LastWithId(list, id) ==
  LET S == {n \in 1..Len(list) : list[n].id = id}
  IN CHOOSE n \in S : \A m \in S : m <= n

(* C18: a store built from the file has the three built-in ids first, in    *)
(* their order; an id the file has carries the fields of the file's entry,  *)
(* any other the fields of the built-in; ids only the file has follow.      *)
C18_RestartMergesOverDefaults ==
  [][Restart =>
       LET list == IF config_file.state = "mapping" /\ config_file.has_key
                   THEN config_file.assistants ELSE <<>>
           ids == {list[a].id : a \in 1..Len(list)}
           builtin == {DEFAULT_ASSISTANTS[b].id : b \in 1..Len(DEFAULT_ASSISTANTS)}
       IN /\ Len(assistants') >= Len(DEFAULT_ASSISTANTS)
          /\ \A d \in 1..Len(DEFAULT_ASSISTANTS) :
               assistants'[d].key = DEFAULT_ASSISTANTS[d].id
          /\ Keys(assistants') = builtin \cup ids
          /\ Len(assistants') = Cardinality(builtin \cup ids)
          /\ \A j \in 1..Len(assistants') :
               IF assistants'[j].key \in ids
               THEN AsDict(assistants'[j]) = list[LastWithId(list, assistants'[j].key)]
               ELSE AsDict(assistants'[j]) = DEFAULT_ASSISTANTS[j]]_vars

(* Started again over a file that renames reviewer and adds doc_bot *)
C18_Witness ==
  /\ returned = "None"
  /\ Len(assistants) = 4
  /\ assistants[2].key = <<"reviewer">>
  /\ assistants[2].name = <<"Renamed">>
  /\ assistants[4].key = <<"doc", "_", "bot">>
  /\ <<"reviewer">> \in {config_file.assistants[n].id : n \in 1..Len(config_file.assistants)}

Ended(r) == runs[r].pc \in {"done", "failed"}

(* C19: a run goes from not started through its steps, one after the other, *)
(* to done or to failed: the step index never goes back and advances by one *)
(* at a time, a run that is done or failed stays as it is, a run one of     *)
(* whose requests failed issues no further request, and with every request  *)
(* issued returning or raising every run started comes to done or failed.   *)
C19_RunStateMachine ==
  /\ [][\A r \in RunIds :
          /\ Ended(r) => runs'[r] = runs[r]
          /\ (runs[r].pc = "idle" /\ runs'[r].pc # "idle") => runs'[r].step = 1
          /\ Running(r) =>
               /\ runs'[r].pc # "idle"
               /\ runs'[r].step \in {runs[r].step, runs[r].step + 1}
               /\ runs'[r].pc = "done" => runs'[r].step = Len(runs[r].workflow) + 1
          /\ runs'[r].pc = "done" => runs'[r].step = Len(runs'[r].workflow) + 1
          /\ \A c \in (Len(calls) + 1)..Len(calls') :
               calls'[c].run = r =>
                 /\ calls'[c].step = runs'[r].step
                 /\ \A d \in 1..Len(calls) :
                      calls[d].run = r => calls[d].status # "failed"]_vars
  /\ \A r \in RunIds : Running(r) ~> Ended(r)

(* A run of two steps that failed in its second step after a first step of  *)
(* two calls                                                                *)
C19_Witness ==
  \E r \in RunIds :
    /\ runs[r].pc = "failed"
    /\ runs[r].step = 2
    /\ Len(runs[r].workflow) = 2
    /\ Len(runs[r].workflow[1].assistants) = 2
    /\ \E c \in 1..Len(calls) : calls[c].step = 2 /\ calls[c].status = "failed"

(* C20: every identifier in a step of the draft or of a saved workflow, and *)
(* in every request issued, is the id of an assistant the Assistant Store   *)
(* holds.                                                                   *)
C20_StepsNameStoredAssistants ==
  /\ \A j \in 1..Len(current_workflow) :
       \A k \in 1..Len(current_workflow[j].assistants) :
         HasAssistant(current_workflow[j].assistants[k])
  /\ \A i \in 1..Len(workflows) : \A j \in 1..Len(workflows[i].steps) :
       \A k \in 1..Len(workflows[i].steps[j].assistants) :
         HasAssistant(workflows[i].steps[j].assistants[k])
  /\ \A c \in 1..Len(calls) : HasAssistant(calls[c].assistant)

====
